---- MODULE Spec2Model ----
(***************************************************************************)
(* Model of Core/Src/main.c: LED blink speed control on an STM32F446RE.    *)
(*                                                                         *)
(* A 32-bit peripheral register is the set of the indices of its 1 bits,   *)
(* so  R |= m  is  R \cup m,  R &= ~m  is  R \ m  and  R ^= m  is the      *)
(* symmetric difference.  SYSTICK_RELOAD and SYSTICK_CURRENT are numbers.  *)
(* Every C statement is one step of the processor and takes a fixed number *)
(* of clock cycles; the SysTick counter runs during the step and the       *)
(* statement's write lands at the end of it.  The button is the            *)
(* environment: its edges take no time and may come between any two steps. *)
(***************************************************************************)
EXTENDS Integers, Sequences, FiniteSets

(* ------------------------------ constants ------------------------------ *)

HIGH_SPEED == 4000000

MEDIUM_SPEED == 8000000

LOW_SPEED == 16000000

\* Cycles of one C statement, of exception entry and of exception return.
StmtCycles == 3

EntryCycles == 12

ExitCycles == 10

\* The idle loop is followed in jumps: of Chunk cycles, up to the next tick,
\* or up to a point so near the next tick that the tick fires inside the
\* entry (k = 0) or the k-th statement of a handler entered there, k up to
\* NearSteps.
Chunk == 3000000

NearSteps == 6

\* The cycle counters of the observers saturate here.
Horizon == 40000000

\* SYSTICK_RELOAD and SYSTICK_CURRENT are 24 bits wide.
TwoTo24 == 2^24

(* ------------------------------ bit helpers ---------------------------- *)

\* The 1 bits of the int constant v, 0 <= v < 2^31.
Bits(v) == {i \in 0..30 : (v \div (2^i)) % 2 = 1}

\* (v << n)
Shl(v, n) == {b + n : b \in Bits(v)} \cap (0..31)

\* R ^ m
Xor(R, m) == (R \ m) \cup (m \ R)

(* ------------------------------ statements ----------------------------- *)
(* r is the record of the memory-mapped registers, the global speed and    *)
(* the parameter ticks; l is the source line of the statement executed.    *)

\* A write to a peripheral whose bus clock is off is ignored.
Gated(on, new, old) == IF on THEN new ELSE old

RCC_Init(l, r) ==
  CASE l = 91 -> [r EXCEPT !.RCC_AHB1ENR = @ \cup Shl(1, 0)]
    [] l = 92 -> [r EXCEPT !.RCC_AHB1ENR = @ \cup Shl(1, 2)]
    [] l = 93 -> [r EXCEPT !.RCC_APB2ENR = @ \cup Shl(1, 14)]

\* Mutant: the output mode assigned to the whole register (= for |=).
GPIOA_Init_AssignsMode(l, r) ==
  LET on == 0 \in r.RCC_AHB1ENR IN
  CASE l = 99  -> [r EXCEPT !.GPIOA_MODER = Gated(on, @ \ Shl(3, 5 * 2), @)]
    [] l = 100 -> [r EXCEPT !.GPIOA_MODER = Gated(on, Shl(1, 5 * 2), @)]
    [] l = 101 -> [r EXCEPT !.GPIOA_OTYPER = Gated(on, @ \ Shl(1, 5), @)]
    [] l = 102 -> [r EXCEPT !.GPIOA_OSPEEDER = Gated(on, @ \ Shl(3, 5 * 2), @)]
    [] l = 103 -> [r EXCEPT !.GPIOA_PUPDR = Gated(on, @ \ Shl(3, 5 * 2), @)]

GPIOA_Init(l, r) ==
  LET on == 0 \in r.RCC_AHB1ENR IN
  CASE l = 99  -> [r EXCEPT !.GPIOA_MODER = Gated(on, @ \ Shl(3, 5 * 2), @)]
    [] l = 100 -> [r EXCEPT !.GPIOA_MODER = Gated(on, @ \cup Shl(1, 5 * 2), @)]
    [] l = 101 -> [r EXCEPT !.GPIOA_OTYPER = Gated(on, @ \ Shl(1, 5), @)]
    [] l = 102 -> [r EXCEPT !.GPIOA_OSPEEDER = Gated(on, @ \ Shl(3, 5 * 2), @)]
    [] l = 103 -> [r EXCEPT !.GPIOA_PUPDR = Gated(on, @ \ Shl(3, 5 * 2), @)]

GPIOC_Init(l, r) ==
  LET on == 2 \in r.RCC_AHB1ENR IN
  CASE l = 109 -> [r EXCEPT !.GPIOC_MODER = Gated(on, @ \ Shl(3, 13 * 2), @)]
    [] l = 110 -> [r EXCEPT !.GPIOC_PUPDR = Gated(on, @ \ Shl(3, 13 * 2), @)]
    [] l = 111 -> [r EXCEPT !.GPIOC_PUPDR = Gated(on, @ \cup Shl(1, 13 * 2), @)]

\* Mutant: the reload value written without the "- 1".
Set_Counter_NoMinusOne(l, r) ==
  CASE l = 126 -> [r EXCEPT !.SYSTICK_RELOAD = r.ticks % TwoTo24]
    [] l = 127 -> [r EXCEPT !.SYSTICK_CURRENT = 0]

\* Mutant: the reload value written, the current count left running.
Set_Counter_NoReset(l, r) ==
  CASE l = 126 -> [r EXCEPT !.SYSTICK_RELOAD = (r.ticks - 1) % TwoTo24]
    [] l = 127 -> r

\* Mutant: the current count cleared before the reload value is written.
Set_Counter_ResetFirst(l, r) ==
  CASE l = 126 -> [r EXCEPT !.SYSTICK_CURRENT = 0]
    [] l = 127 -> [r EXCEPT !.SYSTICK_RELOAD = (r.ticks - 1) % TwoTo24]

\* SYSTICK_RELOAD keeps the low 24 bits of the uint32_t ticks - 1, which
\* wraps modulo 2^32; 2^24 divides 2^32, so these are (ticks - 1) mod 2^24.
\* A write of any value to SYSTICK_CURRENT clears it.
SysTick_Set_Counter(l, r) ==
  CASE l = 126 -> [r EXCEPT !.SYSTICK_RELOAD = (r.ticks - 1) % TwoTo24]
    [] l = 127 -> [r EXCEPT !.SYSTICK_CURRENT = 0]

\* Mutant: main starts at the medium rate.
InitTicks_Medium == MEDIUM_SPEED

\* main passes HIGH_SPEED (line 80).
InitTicks == HIGH_SPEED

\* Mutant: the counter is never enabled.
SysTick_Init_NoEnable(l, r) ==
  CASE l = 117 -> [r EXCEPT !.ticks = HIGH_SPEED]
    [] l = 118 -> [r EXCEPT !.SYSTICK_CTRL = @ \cup Shl(1, 2)]
    [] l = 119 -> [r EXCEPT !.SYSTICK_CTRL = @ \cup Shl(1, 1)]
    [] l = 120 -> r

SysTick_Init(l, r) ==
  CASE l = 117 -> [r EXCEPT !.ticks = InitTicks]
    [] l = 118 -> [r EXCEPT !.SYSTICK_CTRL = @ \cup Shl(1, 2)]
    [] l = 119 -> [r EXCEPT !.SYSTICK_CTRL = @ \cup Shl(1, 1)]
    [] l = 120 -> [r EXCEPT !.SYSTICK_CTRL = @ \cup Shl(1, 0)]

\* Mutant: rising-edge detection enabled, not disabled.
EXTI13_Init_RisingToo(l, r) ==
  LET on == 14 \in r.RCC_APB2ENR IN
  CASE l = 133 -> [r EXCEPT !.NVIC_ISER1 = @ \cup Shl(1, 40 - 32)]
    [] l = 135 -> [r EXCEPT !.SYSCFG_EXTICR4 = Gated(on, @ \ Shl(15, 4), @)]
    [] l = 136 -> [r EXCEPT !.SYSCFG_EXTICR4 = Gated(on, @ \cup Shl(2, 4), @)]
    [] l = 138 -> [r EXCEPT !.EXTI_EMR = @ \ Shl(1, 13)]
    [] l = 139 -> [r EXCEPT !.EXTI_RTSR = @ \cup Shl(1, 13)]
    [] l = 140 -> [r EXCEPT !.EXTI_FTSR = @ \cup Shl(1, 13)]
    [] l = 141 -> [r EXCEPT !.EXTI_IMR = @ \cup Shl(1, 13)]

EXTI13_Init(l, r) ==
  LET on == 14 \in r.RCC_APB2ENR IN
  CASE l = 133 -> [r EXCEPT !.NVIC_ISER1 = @ \cup Shl(1, 40 - 32)]
    [] l = 135 -> [r EXCEPT !.SYSCFG_EXTICR4 = Gated(on, @ \ Shl(15, 4), @)]
    [] l = 136 -> [r EXCEPT !.SYSCFG_EXTICR4 = Gated(on, @ \cup Shl(2, 4), @)]
    [] l = 138 -> [r EXCEPT !.EXTI_EMR = @ \ Shl(1, 13)]
    [] l = 139 -> [r EXCEPT !.EXTI_RTSR = @ \ Shl(1, 13)]
    [] l = 140 -> [r EXCEPT !.EXTI_FTSR = @ \cup Shl(1, 13)]
    [] l = 141 -> [r EXCEPT !.EXTI_IMR = @ \cup Shl(1, 13)]

\* Mutant: the Tick Handler also restarts the count.
SysTick_Handler_AlsoRestarts(l, r) ==
  CASE l = 149 -> [r EXCEPT !.GPIOA_ODR = Gated(0 \in r.RCC_AHB1ENR, Xor(@, Shl(1, 5)), @),
                            !.SYSTICK_CURRENT = 0]

\* Mutant: the pin is set, not toggled.
SysTick_Handler_SetsPin(l, r) ==
  CASE l = 149 -> [r EXCEPT !.GPIOA_ODR = Gated(0 \in r.RCC_AHB1ENR, @ \cup Shl(1, 5), @)]

SysTick_Handler(l, r) ==
  CASE l = 149 -> [r EXCEPT !.GPIOA_ODR = Gated(0 \in r.RCC_AHB1ENR, Xor(@, Shl(1, 5)), @)]

\* Mutant: case 3 passes a count of twice LOW_SPEED.
SpeedTicks_SlowDoubled(s) ==
  CASE s = 1 -> HIGH_SPEED
    [] s = 2 -> MEDIUM_SPEED
    [] s = 3 -> 2 * LOW_SPEED
    [] OTHER -> 0

\* Mutant: the counts of cases 2 and 3 exchanged.
SpeedTicks_SwappedCases(s) ==
  CASE s = 1 -> HIGH_SPEED
    [] s = 2 -> LOW_SPEED
    [] s = 3 -> MEDIUM_SPEED
    [] OTHER -> 0

\* The count the switch passes for a value of speed (0: no case matches).
SpeedTicks(s) ==
  CASE s = 1 -> HIGH_SPEED
    [] s = 2 -> MEDIUM_SPEED
    [] s = 3 -> LOW_SPEED
    [] OTHER -> 0

\* EXTI_PR is write-1-to-clear: the value written is the value read with
\* bit 13 set, and every bit written as 1 is cleared.
PendingClear(pr) == pr \ (pr \cup Shl(1, 13))

\* The switch of lines 159 to 170.
Switch(r) == IF r.speed \in {1, 2, 3} THEN [r EXCEPT !.ticks = SpeedTicks(r.speed)] ELSE r

\* Mutant: speed = speed + 1, with no wrap back to 1.
Handler_NoWrap(l, r) ==
  CASE l = 155 -> [r EXCEPT !.EXTI_PR = PendingClear(@)]
    [] l = 157 -> [r EXCEPT !.speed = (@ + 1) % 256]
    [] l = 159 -> Switch(r)

\* Mutant: speed = (speed + 1) % 3.
Handler_ModAfterAdd(l, r) ==
  CASE l = 155 -> [r EXCEPT !.EXTI_PR = PendingClear(@)]
    [] l = 157 -> [r EXCEPT !.speed = ((@ + 1) % 3) % 256]
    [] l = 159 -> Switch(r)

\* Mutant: speed advanced first, the pending flag cleared after it.
Handler_AdvanceFirst(l, r) ==
  CASE l = 155 -> [r EXCEPT !.speed = ((@ % 3) + 1) % 256]
    [] l = 157 -> [r EXCEPT !.EXTI_PR = PendingClear(@)]
    [] l = 159 -> Switch(r)

\* Mutant: EXTI_PR &= ~(1 << 13), which writes 0 to bit 13 and so leaves it.
Handler_ClearByAndNot(l, r) ==
  CASE l = 155 -> [r EXCEPT !.EXTI_PR = @ \ (@ \ Shl(1, 13))]
    [] l = 157 -> [r EXCEPT !.speed = ((@ % 3) + 1) % 256]
    [] l = 159 -> Switch(r)

EXTI15_10_IRQHandler(l, r) ==
  CASE l = 155 -> [r EXCEPT !.EXTI_PR = PendingClear(@)]
    [] l = 157 -> [r EXCEPT !.speed = ((@ % 3) + 1) % 256]
    [] l = 159 -> Switch(r)

\* The effect of the statement at line l.
Exec(l, r) ==
  CASE l \in 91..93   -> RCC_Init(l, r)
    [] l \in 99..103  -> GPIOA_Init(l, r)
    [] l \in 109..111 -> GPIOC_Init(l, r)
    [] l \in 117..120 -> SysTick_Init(l, r)
    [] l \in 126..127 -> SysTick_Set_Counter(l, r)
    [] l \in 133..141 -> EXTI13_Init(l, r)
    [] l = 149        -> SysTick_Handler(l, r)
    [] l \in 155..159 -> EXTI15_10_IRQHandler(l, r)
    [] OTHER          -> r

(* ------------------------------ control flow --------------------------- *)

\* The statements of each function main calls, in the order executed.
Body(f) ==
  CASE f = "RCC_Init"     -> <<91, 92, 93>>
    [] f = "GPIOA_Init"   -> <<99, 100, 101, 102, 103>>
    [] f = "GPIOC_Init"   -> <<109, 110, 111>>
    [] f = "SysTick_Init" -> <<117, 126, 127, 118, 119, 120>>
    [] f = "EXTI13_Init"  -> <<133, 135, 136, 138, 139, 140, 141>>

\* Mutant: the edge interrupt source configured before the tick source.
main_EdgeSourceEarly ==
  <<"RCC_Init", "GPIOA_Init", "GPIOC_Init", "EXTI13_Init", "SysTick_Init">>

\* The calls of main, lines 77 to 81.
main == <<"RCC_Init", "GPIOA_Init", "GPIOC_Init", "SysTick_Init", "EXTI13_Init">>

RECURSIVE Flatten(_)
Flatten(calls) ==
  IF calls = <<>> THEN <<>>
  ELSE [i \in 1..Len(Body(Head(calls))) |->
           [f |-> Head(calls), l |-> Body(Head(calls))[i], first |-> (i = 1)]]
       \o Flatten(Tail(calls))

\* What the thread executes: the bodies of the calls, then while (1) at 83.
MainPath == Flatten(main) \o <<[f |-> "main", l |-> 83, first |-> FALSE]>>

\* The line a handler executes after line l; 150 and 171 are the returns.
HandlerNext(l, r) ==
  CASE l = 149 -> 150
    [] l = 155 -> 157
    [] l = 157 -> 159
    [] l = 159 -> IF r.speed \in {1, 2, 3} THEN 126 ELSE 171
    [] l = 126 -> 127
    [] l = 127 -> 171

(* ------------------------------ hardware ------------------------------- *)

\* The SysTick counter after d clock cycles: each cycle a counter at 0
\* reloads from SYSTICK_RELOAD and any other counter decrements; the step
\* from 1 to 0 fires.  fires: the number of firings; first: the cycle of
\* the first one, counted from the start of the d cycles.
TimerRun(cur, rel, on, d) ==
  LET tf == IF cur = 0 THEN rel + 1 ELSE cur IN
  IF ~on \/ d = 0 \/ (cur = 0 /\ rel = 0)
    THEN [cur |-> cur, fires |-> 0, first |-> 0]
  ELSE IF d < tf
    THEN [cur |-> tf - d, fires |-> 0, first |-> 0]
  ELSE IF rel = 0
    THEN [cur |-> 0, fires |-> 1, first |-> tf]
  ELSE LET rest == (d - tf) % (rel + 1) IN
       [cur   |-> IF rest = 0 THEN 0 ELSE rel + 1 - rest,
        fires |-> 1 + ((d - tf) \div (rel + 1)),
        first |-> tf]

\* Cycles until the counter next fires; 0 when it never does.
TimeToFire(r) ==
  IF 0 \notin r.SYSTICK_CTRL THEN 0
  ELSE IF r.SYSTICK_CURRENT # 0 THEN r.SYSTICK_CURRENT
  ELSE IF r.SYSTICK_RELOAD = 0 THEN 0
  ELSE r.SYSTICK_RELOAD + 1

\* The request of EXTI lines 10 to 15 to the interrupt controller (IRQ40).
Line(r) == (r.EXTI_PR \cap r.EXTI_IMR \cap (10..15)) # {}

\* The port whose pin 13 the multiplexer routes to EXTI line 13.
Ports == {"A", "C"}

PortCode(p) == CASE p = "A" -> 0 [] p = "C" -> 2

Selected(p, r) == Shl(PortCode(p), 4) = r.SYSCFG_EXTICR4 \cap (4..7)

(* ------------------------------ state ---------------------------------- *)

VARIABLES
  reg,      \* the registers, the global speed and the parameter ticks
  pc,       \* the thread's place in MainPath
  active,   \* "Thread", or the exception whose handler is running
  hpc,      \* the line the running handler executes next (0: none)
  pendST,   \* the SysTick exception is pending
  pend40,   \* IRQ40 (EXTI15_10) is pending in the interrupt controller
  pin,      \* the level of pin 13 of each port
  obs       \* observers: what has happened, and when (no effect on the rest)

vars == <<reg, pc, active, hpc, pendST, pend40, pin, obs>>

\* The registers of port A the program uses.
GPIOA == {"GPIOA_MODER", "GPIOA_OTYPER", "GPIOA_OSPEEDER", "GPIOA_PUPDR", "GPIOA_ODR"}

\* A cycle counter of the observers: -1 is "not running".
Sat(x) == IF x > Horizon THEN Horizon ELSE x

Run(c, d) == IF c < 0 THEN c ELSE Sat(c + d)

\* The observers after a step of d cycles in which the counter did tm and
\* the statement at line l (0: none) was executed from registers r.
Observe(o, d, tm, l, r) ==
  LET fired  == tm.fires > 0 /\ 1 \in r.SYSTICK_CTRL
      n      == IF fired THEN tm.fires ELSE 0
      owed1  == (IF o.owed + n > 2 THEN 2 ELSE o.owed + n) - (IF l = 149 THEN 1 ELSE 0)
  IN [o EXCEPT
       !.owed         = owed1,
       !.parity       = (@ + n) % 2,
       !.sinceFire    = IF l \in {127, 157} THEN -1
                        ELSE IF fired THEN d - tm.first ELSE Run(@, d),
       !.firePeriod   = IF fired /\ o.sinceFire >= 0 THEN o.sinceFire + tm.first ELSE -1,
       !.periodSpeed  = IF fired /\ o.sinceFire >= 0 THEN r.speed ELSE 0,
       !.sinceToggle  = IF l = 157 THEN -1 ELSE IF l = 149 THEN 0 ELSE Run(@, d),
       !.togglePeriod = IF l = 149 /\ o.sinceToggle >= 0 THEN Sat(o.sinceToggle + d) ELSE -1,
       !.sinceSet     = IF l = 127 THEN 0 ELSE IF fired THEN -1 ELSE Run(@, d),
       !.fireAfterSet = IF fired /\ o.sinceSet >= 0 THEN Sat(o.sinceSet + tm.first) ELSE -1,
       !.sinceArm     = IF l = 127 THEN (IF 0 \in r.SYSTICK_CTRL THEN 0 ELSE -2)
                        ELSE IF l = 120 /\ @ = -2 THEN 0
                        ELSE IF fired THEN -1 ELSE Run(@, d),
       !.fireAfterArm = IF fired /\ o.sinceArm >= 0 THEN Sat(o.sinceArm + tm.first) ELSE -1,
       !.setTicks     = IF l = 127 THEN r.ticks ELSE @,
       !.firedTicks   = IF fired THEN o.setTicks ELSE 0,
       !.oldDue       = IF l = 127 /\ 0 \in r.SYSTICK_CTRL THEN tm.cur ELSE 0,
       !.newEdge      = IF l = 155 THEN FALSE ELSE @,
       !.prior        = IF l = 133 THEN [f \in GPIOA |-> {}] ELSE @ ]

\* The observers when main is entered with registers r; prior keeps the
\* contents of the GPIOA registers at that moment, up to the call of
\* EXTI13_Init.
Observers(r) ==
  [ owed |-> 0, parity |-> 0,
    sinceFire |-> -1, firePeriod |-> -1, periodSpeed |-> 0,
    sinceToggle |-> -1, togglePeriod |-> -1,
    sinceSet |-> -1, fireAfterSet |-> -1,
    sinceArm |-> -1, fireAfterArm |-> -1, setTicks |-> 0, firedTicks |-> 0,
    oldDue |-> 0,
    edges |-> 0, missed |-> FALSE, newEdge |-> FALSE, handled |-> FALSE,
    calls |-> <<>>, entrySpeed |-> 0, clears |-> 0,
    prior |-> [f \in GPIOA |-> r[f]] ]

\* The registers at reset, with SysTick's undefined ones at 0.
ResetValues ==
  [ RCC_AHB1ENR |-> {20}, RCC_APB2ENR |-> {},
    GPIOA_MODER |-> {27, 29, 31}, GPIOA_OTYPER |-> {},
    GPIOA_OSPEEDER |-> {26, 27}, GPIOA_PUPDR |-> {26, 29, 30},
    GPIOA_ODR |-> {}, GPIOC_MODER |-> {}, GPIOC_PUPDR |-> {},
    SYSTICK_CTRL |-> {}, SYSTICK_RELOAD |-> 0, SYSTICK_CURRENT |-> 0,
    SYSCFG_EXTICR4 |-> {},
    EXTI_IMR |-> {}, EXTI_EMR |-> {}, EXTI_RTSR |-> {},
    EXTI_FTSR |-> {}, EXTI_PR |-> {},
    NVIC_ISER1 |-> {},
    speed |-> 1, ticks |-> 0 ]

\* The state at reset: the registers at their STM32F446 reset values (the
\* value of SYSTICK_RELOAD and SYSTICK_CURRENT and the clock source bit of
\* SYSTICK_CTRL are not defined at reset), speed = 1 (line 62), the pins
\* at any level.
Init ==
  /\ reg \in [ RCC_AHB1ENR : {{20}}, RCC_APB2ENR : {{}},
               GPIOA_MODER : {{27, 29, 31}}, GPIOA_OTYPER : {{}},
               GPIOA_OSPEEDER : {{26, 27}}, GPIOA_PUPDR : {{26, 29, 30}},
               GPIOA_ODR : {{}}, GPIOC_MODER : {{}}, GPIOC_PUPDR : {{}},
               SYSTICK_CTRL : {{}, {2}},
               SYSTICK_RELOAD : {0, TwoTo24 - 1},
               SYSTICK_CURRENT : {0, TwoTo24 - 1},
               SYSCFG_EXTICR4 : {{}},
               EXTI_IMR : {{}}, EXTI_EMR : {{}}, EXTI_RTSR : {{}},
               EXTI_FTSR : {{}}, EXTI_PR : {{}},
               NVIC_ISER1 : {{}},
               speed : {1}, ticks : {0} ]
  /\ pc = 1
  /\ active = "Thread"
  /\ hpc = 0
  /\ pendST = FALSE
  /\ pend40 = FALSE
  /\ pin \in [Ports -> {0, 1}]
  /\ obs = Observers(reg)

\* The prior contents main may find in the GPIOA registers and in EXTI_PR
\* when it does not start from a reset (started by a loader, restarted by
\* a debugger): pin 5 in any mode, output type, speed, pull and level, the
\* other pins as at reset (pin 5 low) or with the pins next to pin 5 in
\* use (pin 5 high); no flag pending, or those of lines 3 and 12.
PriorGPIOA ==
  { [ GPIOA_MODER    |-> Shl(v, 5 * 2) \cup (IF t = 1 THEN {8, 9, 12, 13} ELSE {27, 29, 31}),
      GPIOA_OTYPER   |-> Shl(w, 5) \cup (IF t = 1 THEN {4, 6} ELSE {}),
      GPIOA_OSPEEDER |-> Shl(3 - v, 5 * 2) \cup (IF t = 1 THEN {8, 13} ELSE {26, 27}),
      GPIOA_PUPDR    |-> Shl((v + 1) % 4, 5 * 2) \cup (IF t = 1 THEN {9, 12} ELSE {26, 29, 30}),
      GPIOA_ODR      |-> Shl(t, 5) \cup (IF t = 1 THEN {4, 6} ELSE {}) ]
    : v \in 0..3, w \in {0, 1}, t \in {0, 1} }

PriorPending == {{}, {3, 12}}

\* main entered with any of these contents, the rest as at reset.
AnyContentInit ==
  /\ \E g \in PriorGPIOA, p \in PriorPending :
        reg = [ f \in DOMAIN ResetValues |->
                  IF f \in DOMAIN g THEN g[f]
                  ELSE IF f = "EXTI_PR" THEN p
                  ELSE ResetValues[f] ]
  /\ pc = 1
  /\ active = "Thread"
  /\ hpc = 0
  /\ pendST = FALSE
  /\ pend40 = FALSE
  /\ pin \in [Ports -> {0, 1}]
  /\ obs = Observers(reg)

(* ------------------------------ processor ------------------------------ *)

\* An exception the processor would take now.  SysTick and IRQ40 keep
\* their reset priority 0, so neither handler preempts the other.
Takeable == pendST \/ (pend40 /\ 8 \in reg.NVIC_ISER1)

\* One step of the processor: d cycles pass, then the statement at line l
\* (0: none) takes effect.  enter: the exception entered by the step, or
\* "none"; leave: the step returns from a handler.  obs.entrySpeed is the
\* speed the running Speed-Change Handler was entered with and obs.clears
\* the number of its statements that cleared pending bit 13 (at most 2
\* are counted).
Cpu(d, l, enter, leave) ==
  LET tm == TimerRun(reg.SYSTICK_CURRENT, reg.SYSTICK_RELOAD, 0 \in reg.SYSTICK_CTRL, d)
      r1 == [reg EXCEPT !.SYSTICK_CURRENT = tm.cur]
      r2 == Exec(l, r1)
  IN /\ reg' = r2
     /\ pendST' = ((pendST /\ enter # "SysTick") \/ (tm.fires > 0 /\ 1 \in reg.SYSTICK_CTRL))
     /\ pend40' = ((pend40 /\ enter # "EXTI15_10")
                   \/ (~Line(reg) /\ Line(r2))
                   \/ (leave /\ active = "EXTI15_10" /\ Line(r2)))
     /\ obs' = [Observe(obs, d, tm, l, reg) EXCEPT
                  !.handled = @ \/ enter = "EXTI15_10",
                  !.entrySpeed = IF enter = "EXTI15_10" THEN reg.speed
                                 ELSE IF leave THEN 0 ELSE @,
                  !.clears = IF enter = "EXTI15_10" \/ leave THEN 0
                             ELSE IF active = "EXTI15_10" /\ 13 \in r1.EXTI_PR
                                     /\ 13 \notin r2.EXTI_PR
                               THEN (IF @ < 2 THEN @ + 1 ELSE 2)
                             ELSE @,
                  !.calls = IF active = "Thread" /\ ~leave /\ enter = "none"
                               /\ MainPath[pc].first /\ l # 0
                            THEN Append(@, MainPath[pc].f) ELSE @]
     /\ pin' = pin

\* The thread executes its next statement.
MainStep ==
  /\ active = "Thread" /\ ~Takeable
  /\ pc < Len(MainPath)
  /\ Cpu(StmtCycles, MainPath[pc].l, "none", FALSE)
  /\ pc' = pc + 1
  /\ UNCHANGED <<active, hpc>>

\* The points before the next tick the idle loop is followed up to.
NearPoints == {EntryCycles + k * StmtCycles - 1 : k \in 0..NearSteps} \cup {1}

IdleJumps ==
  LET tf == TimeToFire(reg) IN
  IF tf = 0 THEN {Chunk}
  ELSE {tf} \cup {tf - n : n \in {m \in NearPoints : m < tf}}
            \cup (IF Chunk < tf THEN {Chunk} ELSE {})

\* while (1); of line 83, for d cycles.
Idle ==
  /\ active = "Thread" /\ ~Takeable
  /\ pc = Len(MainPath)
  /\ \E d \in IdleJumps : Cpu(d, 0, "none", FALSE)
  /\ UNCHANGED <<pc, active, hpc>>

\* Exception entry; of two pending exceptions SysTick (15) goes first.
TakeSysTick ==
  /\ active = "Thread" /\ pendST
  /\ Cpu(EntryCycles, 0, "SysTick", FALSE)
  /\ active' = "SysTick"
  /\ hpc' = 149
  /\ pc' = pc

TakeEXTI ==
  /\ active = "Thread" /\ ~pendST /\ pend40 /\ 8 \in reg.NVIC_ISER1
  /\ Cpu(EntryCycles, 0, "EXTI15_10", FALSE)
  /\ active' = "EXTI15_10"
  /\ hpc' = 155
  /\ pc' = pc

\* The running handler executes its next statement.
HandlerStep ==
  /\ active # "Thread" /\ hpc \notin {150, 171}
  /\ Cpu(StmtCycles, hpc, "none", FALSE)
  /\ hpc' = HandlerNext(hpc, reg)
  /\ UNCHANGED <<pc, active>>

\* The running handler returns.
HandlerReturn ==
  /\ active # "Thread" /\ hpc \in {150, 171}
  /\ Cpu(ExitCycles, 0, "none", TRUE)
  /\ active' = "Thread"
  /\ hpc' = 0
  /\ pc' = pc

(* ------------------------------ environment ---------------------------- *)

\* Pin 13 of port p changes level.  An edge of the selected polarity on
\* the routed port sets pending bit 13; with the line masked in EXTI_IMR
\* the bit may or may not be set.  obs.edges counts the falling edges of
\* PC13 modulo 3; obs.missed records that one of them did not set bit 13
\* (the line was not yet configured, or the bit was still set).
Edge(p) ==
  LET falling == pin[p] = 1
      trig    == Selected(p, reg)
                 /\ ((falling /\ 13 \in reg.EXTI_FTSR) \/ (~falling /\ 13 \in reg.EXTI_RTSR))
  IN /\ pin' = [pin EXCEPT ![p] = 1 - @]
     /\ \E latch \in {TRUE, FALSE} :
          /\ latch => trig
          /\ (trig /\ 13 \in reg.EXTI_IMR) => latch
          /\ reg' = [reg EXCEPT !.EXTI_PR = IF latch THEN @ \cup {13} ELSE @]
          /\ LET new == 13 \notin reg.EXTI_PR /\ latch IN
             obs' = [obs EXCEPT
                      !.edges = IF p = "C" /\ falling THEN (@ + 1) % 3 ELSE @,
                      !.missed = @ \/ (p = "C" /\ falling /\ ~new),
                      !.newEdge = @ \/ new]
     /\ pend40' = (pend40 \/ (~Line(reg) /\ Line(reg')))
     /\ UNCHANGED <<pc, active, hpc, pendST>>

Button == \E p \in Ports : Edge(p)

Processor == MainStep \/ Idle \/ TakeSysTick \/ TakeEXTI \/ HandlerStep \/ HandlerReturn

Next == Processor \/ Button

Spec == Init /\ [][Next]_vars

\* The clock keeps advancing: the processor always takes its next step.
FairSpec == Spec /\ WF_vars(Processor)

\* The program entered with any prior content of GPIOA and EXTI_PR.
AnyContentSpec == AnyContentInit /\ [][Next]_vars

(* ------------------------------ properties ----------------------------- *)

\* The count of each Speed: Fast (1), Medium (2), Slow (3).
CountOf(s) == CASE s = 1 -> HIGH_SPEED [] s = 2 -> MEDIUM_SPEED [] s = 3 -> LOW_SPEED [] OTHER -> -1

\* Startup is over: the thread is in while (1) of line 83.
InIdleLoop == pc = Len(MainPath)

\* No button edge is waiting to be handled or being handled.
Quiescent == InIdleLoop /\ active = "Thread" /\ ~pend40 /\ 13 \notin reg.EXTI_PR

\* C1, as stated: after N falling edges on PC13 from reset, whatever their
\* timing, and once they are handled, speed is at position N mod 3 of
\* Fast -> Medium -> Slow.
C1_EveryEdgeCounts == Quiescent => reg.speed = 1 + obs.edges

\* C1, amended: after N falling edges on PC13, each of which set the
\* pending flag of line 13 (it arrived after startup had unmasked the line
\* and after the handler had cleared the flag of the edge before), speed is
\* at position N mod 3, whatever the timing relative to the ticks.
C1_LatchedEdgesCount == (Quiescent /\ ~obs.missed) => reg.speed = 1 + obs.edges

\* Three presses, all counted, with the LED ticking: Fast again.
C1_Witness ==
  Quiescent /\ ~obs.missed /\ obs.handled /\ obs.edges = 0 /\ reg.speed = 1 /\ obs.parity = 1

\* The handler has advanced speed and not yet written SYSTICK_RELOAD.
InUpdateWindow == active = "EXTI15_10" /\ hpc \in {159, 126}

\* C2, as stated: at every point after the tick source is enabled,
\* SYSTICK_RELOAD holds the count of the current Speed minus 1.
C2_ReloadAlwaysMatches == 0 \in reg.SYSTICK_CTRL => reg.SYSTICK_RELOAD = CountOf(reg.speed) - 1

\* C2, amended: the same at every point except between the handler's
\* update of speed (line 157) and its write of SYSTICK_RELOAD (line 126).
C2_ReloadMatchesOutsideUpdate ==
  (0 \in reg.SYSTICK_CTRL /\ ~InUpdateWindow) => reg.SYSTICK_RELOAD = CountOf(reg.speed) - 1

\* One press handled: Medium, and the reload register holds its count.
C2_Witness ==
  Quiescent /\ reg.speed = 2 /\ reg.SYSTICK_RELOAD = MEDIUM_SPEED - 1 /\ obs.edges = 1 /\ ~obs.missed

\* C3: when startup has finished and no button edge has been handled,
\* speed is Fast and the tick source holds the HIGH_SPEED count and runs
\* with its interrupt enabled.
C3_StartsFast ==
  (InIdleLoop /\ ~obs.handled) =>
     /\ reg.speed = 1
     /\ reg.SYSTICK_RELOAD = HIGH_SPEED - 1
     /\ {0, 1} \subseteq reg.SYSTICK_CTRL

\* After startup, untouched by the button, two ticks HIGH_SPEED apart.
C3_Witness == InIdleLoop /\ ~obs.handled /\ obs.firePeriod = HIGH_SPEED

\* The handler is at its return.
AtReturn == active = "EXTI15_10" /\ hpc = 171

\* C4, as stated: whenever the handler returns, pending bit 13 is clear.
C4_ClearAtReturn == AtReturn => 13 \notin reg.EXTI_PR

\* C4, amended: whenever the handler returns, pending bit 13 is clear
\* unless a new edge has set it since the handler cleared it; the handler
\* is entered (IRQ40 pending) only after an edge since the last clear.
C4_ClearUnlessNewEdge ==
  /\ (AtReturn /\ 13 \in reg.EXTI_PR) => obs.newEdge
  /\ (pend40 \/ (active = "EXTI15_10" /\ hpc = 155)) => obs.newEdge

\* The handler returns with the flag clear and nothing pending.
C4_Witness == AtReturn /\ 13 \notin reg.EXTI_PR /\ ~pend40 /\ ~obs.newEdge

\* Tick firings not yet answered by a toggle of the Tick Handler.
Awaiting ==
  (IF pendST THEN 1 ELSE 0) + (IF active = "SysTick" /\ hpc = 149 THEN 1 ELSE 0)

\* C5: for every interleaving of ticks and button edges, GPIOA_ODR bit 5 is
\* flipped once per firing of the tick source: every firing is followed by
\* exactly one toggle, and whenever no firing awaits its toggle the bit is
\* the parity of the number of firings.
C5_OneTogglePerTick ==
  /\ obs.owed = Awaiting
  /\ obs.owed = 0 => ((5 \in reg.GPIOA_ODR) <=> (obs.parity = 1))

\* A tick fired while the Speed-Change Handler was running.
C5_Witness == pendST /\ active = "EXTI15_10" /\ hpc = 127 /\ obs.parity = 0 /\ 5 \in reg.GPIOA_ODR

IsPrefix(s, t) == Len(s) <= Len(t) /\ \A i \in 1..Len(s) : s[i] = t[i]

StartupOrder == <<"RCC_Init", "GPIOA_Init", "GPIOC_Init", "SysTick_Init", "EXTI13_Init">>

OutputPinConfigured == reg.GPIOA_MODER \cap {10, 11} = {10} /\ 5 \notin reg.GPIOA_OTYPER

TickSourceConfigured ==
  /\ {0, 1} \subseteq reg.SYSTICK_CTRL
  /\ reg.SYSTICK_RELOAD \in {HIGH_SPEED - 1, MEDIUM_SPEED - 1, LOW_SPEED - 1}

\* C6: startup performs the configuration steps once each, in the order
\* Clock Enable, Output Pin, Input Pin, Tick Source, Edge Interrupt Source,
\* before the idle loop; the Speed-Change Handler never runs with the
\* output pin or the tick source not yet configured.
C6_StartupOrder ==
  /\ IsPrefix(obs.calls, StartupOrder)
  /\ InIdleLoop => obs.calls = StartupOrder
  /\ active = "EXTI15_10" => (InIdleLoop /\ OutputPinConfigured /\ TickSourceConfigured)

\* The handler runs for an edge that came right after startup, before the
\* first tick.
C6_Witness == active = "EXTI15_10" /\ hpc = 155 /\ obs.parity = 0 /\ obs.owed = 0 /\ obs.calls = StartupOrder

\* C7, as stated: with no speed change between them, two consecutive
\* toggles of the output pin are the count of the current Speed apart.
C7_TogglePeriodExact == obs.togglePeriod >= 0 => obs.togglePeriod = CountOf(reg.speed)

\* C7, amended: with no Speed-Change Handler activity between them, two
\* consecutive firings of the tick source are the count of the current
\* Speed apart (each toggle follows its firing by the interrupt latency,
\* which is longer when the firing falls in a run of the Speed-Change
\* Handler).
C7_TickPeriodExact == obs.firePeriod >= 0 => obs.firePeriod = CountOf(obs.periodSpeed)

\* Two ticks at Slow, LOW_SPEED cycles apart.
C7_Witness == obs.firePeriod = LOW_SPEED /\ obs.periodSpeed = 3 /\ reg.speed = 3

\* C8, as stated: the first tick after set_reload(ticks) is raised ticks
\* cycles after the call (measured from its write of SYSTICK_CURRENT).
C8_TickAfterCall == obs.fireAfterSet >= 0 => obs.fireAfterSet = obs.firedTicks

\* C8, amended: the first tick after set_reload(ticks), no other call
\* coming in between, is raised ticks cycles after the counter starts from
\* the cleared value: at the write of SYSTICK_CURRENT when the counter is
\* running (the handler's calls), at the setting of ENABLE in startup.
C8_TickAfterStart == obs.fireAfterArm >= 0 => obs.fireAfterArm = obs.firedTicks

\* The handler reprogrammed a running counter in mid count, and the next
\* tick came MEDIUM_SPEED cycles later.
C8_Witness == obs.fireAfterArm = MEDIUM_SPEED /\ obs.firedTicks = MEDIUM_SPEED /\ reg.speed = 2

\* C9, as stated: the count in flight when the handler reprograms the
\* counter runs to completion: the next tick is due when the count that
\* was in flight at the write (obs.oldDue cycles left) runs out.
C9_OldCountCompletes == (AtReturn /\ obs.oldDue > 0) => TimeToFire(reg) = obs.oldDue

\* C9, amended: when the handler reprograms the counter the count in
\* flight is dropped: SYSTICK_CURRENT is 0 and the next tick is due one
\* full count of the new Speed after the write, whatever was left of the
\* old count.
C9_OldCountDropped ==
  AtReturn => (reg.SYSTICK_CURRENT = 0 /\ TimeToFire(reg) = CountOf(reg.speed))

\* The handler has reprogrammed a counter that was in mid count.
C9_Witness ==
  AtReturn /\ obs.oldDue > 0 /\ obs.oldDue < HIGH_SPEED - Chunk /\ reg.speed = 2

\* The Tick Handler has just toggled the pin.
Toggled == active = "SysTick" /\ hpc = 150

\* C10, as stated: for any pattern of button edges the Tick Handler runs
\* infinitely often.
C10_TicksForever == []<>Toggled

\* C10, amended: the Tick Handler runs infinitely often unless the
\* Speed-Change Handler restarts the counter infinitely often (button
\* edges that keep coming less than a period apart put the tick off).
C10_TicksUnlessRestarted == ([]<>Toggled) \/ ([]<>AtReturn)

\* A tick is served at Slow after two presses.
C10_Witness == Toggled /\ reg.speed = 3 /\ obs.edges = 2 /\ ~obs.missed /\ obs.firePeriod < 0

\* speed after the cyclic advance from s.
NextSpeed(s) == (s % 3) + 1

\* C11: every run of the Speed-Change Handler clears the pending flag of
\* line 13, then advances speed cyclically, then writes the count of the
\* new speed to SYSTICK_RELOAD and clears SYSTICK_CURRENT, in that order;
\* exactly one of its statements clears the flag.
C11_HandlerSequence ==
  active = "EXTI15_10" =>
    LET s0 == obs.entrySpeed
        s1 == NextSpeed(s0)
    IN /\ hpc = 155 => (obs.clears = 0 /\ reg.speed = s0 /\ 13 \in reg.EXTI_PR)
       /\ hpc = 157 => (obs.clears = 1 /\ reg.speed = s0)
       /\ hpc \in {159, 126} =>
            (obs.clears = 1 /\ reg.speed = s1 /\ reg.SYSTICK_RELOAD = CountOf(s0) - 1)
       /\ hpc = 127 =>
            (obs.clears = 1 /\ reg.speed = s1 /\ reg.SYSTICK_RELOAD = CountOf(s1) - 1)
       /\ hpc = 171 =>
            /\ obs.clears = 1 /\ reg.speed = s1
            /\ reg.SYSTICK_RELOAD = CountOf(s1) - 1 /\ reg.SYSTICK_CURRENT = 0

\* A run from Slow back to Fast in which a new edge set the flag again
\* after the clear: still one clear.
C11_Witness ==
  AtReturn /\ obs.clears = 1 /\ obs.entrySpeed = 3 /\ reg.speed = 1
  /\ 13 \in reg.EXTI_PR /\ obs.newEdge

\* The lengths in cycles the next step of the processor can have.
StepCycles ==
  IF active # "Thread" THEN (IF hpc \in {150, 171} THEN {ExitCycles} ELSE {StmtCycles})
  ELSE IF Takeable THEN {EntryCycles}
  ELSE IF InIdleLoop THEN IdleJumps
  ELSE {StmtCycles}

\* SYSTICK_CURRENT moves only as the counter counts: no statement writes it.
OnlyCounted ==
  \E d \in StepCycles :
    reg'.SYSTICK_CURRENT =
      TimerRun(reg.SYSTICK_CURRENT, reg.SYSTICK_RELOAD, 0 \in reg.SYSTICK_CTRL, d).cur

\* C12: after startup only the Speed-Change Handler changes speed and
\* writes SYSTICK_RELOAD and SYSTICK_CURRENT (the counter itself keeps
\* counting SYSTICK_CURRENT down); the statements of the Tick Handler
\* leave speed, SYSTICK_RELOAD, SYSTICK_CURRENT and EXTI_PR as they are and
\* change nothing but bit 5 of GPIOA_ODR; the statements of the
\* Speed-Change Handler leave GPIOA_ODR as it is.  (A step that leaves the
\* pins as they are is a step of the processor.)
C12_HandlerFrames ==
  [][ pin' = pin =>
       /\ (InIdleLoop /\ active # "EXTI15_10") =>
            /\ reg'.speed = reg.speed
            /\ reg'.SYSTICK_RELOAD = reg.SYSTICK_RELOAD
            /\ OnlyCounted
       /\ active = "SysTick" =>
            /\ OnlyCounted
            /\ reg'.EXTI_PR = reg.EXTI_PR
            /\ \A f \in DOMAIN reg \ {"GPIOA_ODR", "SYSTICK_CURRENT"} : reg'[f] = reg[f]
            /\ Xor(reg'.GPIOA_ODR, reg.GPIOA_ODR) \subseteq {5}
       /\ active = "EXTI15_10" => reg'.GPIOA_ODR = reg.GPIOA_ODR
    ]_vars

\* The Tick Handler has toggled the pin at Medium while a button edge was
\* pending: the flag and the speed are still there.
C12_Witness ==
  Toggled /\ reg.speed = 2 /\ 13 \in reg.EXTI_PR /\ 5 \in reg.GPIOA_ODR
  /\ reg.SYSTICK_RELOAD = MEDIUM_SPEED - 1

\* The statement at line l is the next one executed.
NextLine(l) ==
  \/ active = "EXTI15_10" /\ hpc = l
  \/ active = "Thread" /\ MainPath[pc].l = l

\* C13: at every call of SysTick_Set_Counter, from startup and from the
\* Speed-Change Handler, 1 <= ticks <= 2^24, and what line 126 leaves in
\* SYSTICK_RELOAD is ticks - 1 itself: the subtraction has not wrapped and
\* no bit was cut off by the 24-bit register.
C13_TicksInRange ==
  /\ NextLine(126) => (1 <= reg.ticks /\ reg.ticks <= TwoTo24)
  /\ NextLine(127) => reg.SYSTICK_RELOAD = reg.ticks - 1

\* The call with the largest count: the handler's, at Slow.
C13_Witness ==
  active = "EXTI15_10" /\ hpc = 127 /\ reg.speed = 3 /\ reg.ticks = LOW_SPEED
  /\ reg.SYSTICK_RELOAD = LOW_SPEED - 1

\* Line 13 listens to falling edges of port C and to nothing else.
FallingOfPortC ==
  Selected("C", reg) /\ 13 \notin reg.EXTI_RTSR /\ 13 \in reg.EXTI_FTSR

\* C14: EXTI13_Init unmasks line 13 (and no other line) in its last
\* statement, with line 13 already routed to port C, rising-edge detection
\* off and falling-edge detection on; pending flag 13 is set by nothing
\* but a falling edge of PC13, and the Speed-Change Handler is entered only
\* with that flag set: never for a rising edge or a pin of another port.
C14_UnmaskedLast ==
  /\ [](reg.EXTI_IMR \subseteq {13} /\ (13 \in reg.EXTI_IMR => FallingOfPortC))
  /\ [][ /\ (13 \notin reg.EXTI_IMR /\ 13 \in reg'.EXTI_IMR) =>
              (MainPath[pc].f = "EXTI13_Init" /\ MainPath[pc'].f # "EXTI13_Init")
         /\ (13 \notin reg.EXTI_PR /\ 13 \in reg'.EXTI_PR) =>
              (pin["C"] = 1 /\ pin'["C"] = 0)
         /\ (active = "Thread" /\ active' = "EXTI15_10") => 13 \in reg.EXTI_PR
       ]_vars

\* The earliest run of the handler there can be: a falling edge of PC13
\* set the flag while line 141 was still to come, and line 141 has raised
\* the request.
C14_Witness ==
  /\ InIdleLoop /\ active = "Thread" /\ pend40 /\ ~obs.handled
  /\ 13 \in reg.EXTI_PR /\ 13 \in reg.EXTI_IMR /\ pin["C"] = 0
  /\ obs.sinceArm = 7 * StmtCycles

\* GPIOA_Init has returned.
AfterGPIOA_Init == MainPath[pc].f \notin {"RCC_Init", "GPIOA_Init"}

\* The 2-bit field of pin 5, and the bits of the other pins, in a register
\* with 2 bits per pin.
Field5(R) == R \cap {10, 11}

Others2(R) == R \ {10, 11}

\* C15: whatever the GPIOA registers held before, after GPIOA_Init the
\* mode of pin 5 is 01 (output), its output type bit 0 (push-pull), its
\* speed 00 (low) and its pull 00 (none); until EXTI13_Init is called the
\* bits of all other pins in these registers, and all of GPIOA_ODR (bit 5
\* with it), are what they were before.
C15_PinFiveOutput ==
  AfterGPIOA_Init =>
    /\ Field5(reg.GPIOA_MODER) = {10}
    /\ 5 \notin reg.GPIOA_OTYPER
    /\ Field5(reg.GPIOA_OSPEEDER) = {}
    /\ Field5(reg.GPIOA_PUPDR) = {}
    /\ MainPath[pc].f \in {"GPIOC_Init", "SysTick_Init"} =>
         /\ Others2(reg.GPIOA_MODER) = Others2(obs.prior.GPIOA_MODER)
         /\ reg.GPIOA_OTYPER \ {5} = obs.prior.GPIOA_OTYPER \ {5}
         /\ Others2(reg.GPIOA_OSPEEDER) = Others2(obs.prior.GPIOA_OSPEEDER)
         /\ Others2(reg.GPIOA_PUPDR) = Others2(obs.prior.GPIOA_PUPDR)
         /\ reg.GPIOA_ODR = obs.prior.GPIOA_ODR

\* GPIOA_Init has just returned; before it pin 5 was an open-drain
\* alternate-function pin driven high, with speed and pull set, and the
\* pins next to it in use.
C15_Witness ==
  /\ MainPath[pc].f = "GPIOC_Init" /\ MainPath[pc].first
  /\ Field5(obs.prior.GPIOA_MODER) = {11} /\ 5 \in obs.prior.GPIOA_OTYPER
  /\ Field5(obs.prior.GPIOA_OSPEEDER) = {10} /\ Field5(obs.prior.GPIOA_PUPDR) = {10, 11}
  /\ 5 \in reg.GPIOA_ODR /\ {9, 12} \subseteq reg.GPIOA_MODER
  /\ Field5(reg.GPIOA_MODER) = {10}

\* C16: speed is 1, 2 or 3 in every reachable state, so the switch of the
\* Speed-Change Handler always takes one of its cases: every run of the
\* handler goes through SysTick_Set_Counter (never from the switch straight
\* to the return) and leaves a freshly written reload value and a cleared
\* count behind.
C16_SpeedInRange ==
  /\ [](reg.speed \in {1, 2, 3})
  /\ []((active = "EXTI15_10" /\ hpc \in {126, 127}) => reg.ticks = CountOf(reg.speed))
  /\ [][(active = "EXTI15_10" /\ hpc = 159) => hpc' \in {159, 126}]_vars
  /\ [][(active = "EXTI15_10" /\ hpc' = 171) => hpc \in {127, 171}]_vars

\* The third run of the handler, about to wrap speed from 3 to 1.
C16_Witness ==
  active = "EXTI15_10" /\ hpc = 157 /\ reg.speed = 3 /\ obs.edges = 0 /\ ~obs.missed

\* The pending flags of the lines other than line 13.
OtherFlags(pr) == pr \ {13}

\* C17: for every content of EXTI_PR at the entry of the Speed-Change
\* Handler, the clear of line 155 leaves the pending flags of all other
\* lines as they were.
C17_OnlyLine13 ==
  [][(active = "EXTI15_10" /\ hpc = 155 /\ hpc' = 157) =>
        OtherFlags(reg'.EXTI_PR) = OtherFlags(reg.EXTI_PR)]_vars

====
